---- MODULE Spec2Model ----
(***************************************************************************)
(* MinHash / LSH similarity engine (src/src/minhash.py, lsh.py,            *)
(* jaccard.py, movielens_analysis.py).                                     *)
(*                                                                         *)
(* Every operation of the engine is a synchronous function.  Each          *)
(* component gets its own specification: its inputs are drawn from small   *)
(* sets, its loops are stepped as the code steps them, and the other       *)
(* components stay idle.                                                   *)
(*                                                                         *)
(* Conventions                                                             *)
(*   - Python lists/tuples are sequences; a code index i (0-based) is the  *)
(*     sequence index i+1.  Loop counters keep the code's 0-based value.   *)
(*   - "no value" (a call that has not returned, or that raised) is the    *)
(*     empty sequence <<>>, a returned value v is <<v>>.                   *)
(*   - a Python float that is a quotient of two integers is kept as the    *)
(*     pair [num, den]; floats are compared by cross-multiplication.       *)
(***************************************************************************)
EXTENDS Integers, Sequences, FiniteSets, TLC

VARIABLES
    \* ---- lsh_candidate_pairs (movielens_analysis.py:72-98)
    user_ids,        \* list[int]: entity identifiers, row i of signatures
    signatures,      \* np.ndarray of shape (num_users, t): sequence of rows
    params,          \* LshParams(r, b) of the call
    lsh_pc,          \* "idle" | "loop" | "returned" | "raised"
    band_index,      \* loop variable of line 83 (bands processed so far)
    candidates,      \* local set of line 82
    lsh_ret,         \* <<>> or <<returned set>>
    \* ---- MinHash signatures (minhash.py:43-86)
    hash_functions,  \* Sequence[HashFunction]: records [a, b, prime]
    mh_m,            \* m, the range size
    item_sets,       \* Sequence[set[int]] given to minhash_signatures_for_sets
    mh_signatures,   \* local list `signatures` of line 83
    mh_pc,           \* "idle" | "rows" | "returned"
    tokens,          \* the tokens given to minhash_signature
    tok_ret,         \* <<>> or <<signature returned by minhash_signature>>
    \* ---- estimate_jaccard_from_signatures (minhash.py:89-96)
    sig_a, sig_b,    \* the two signatures of the call
    est_pc,          \* "idle" | "returned" | "raised"
    est_ret,         \* <<>> or <<returned float>>
    \* ---- jaccard_similarity (jaccard.py:10-20)
    jac_a, jac_b,    \* the two sets
    jac_ret,         \* <<>> or <<jaccard_similarity(a, b)>>
    jac_ret_swapped, \* <<>> or <<jaccard_similarity(b, a)>>
    \* ---- compute_fp_fn (movielens_analysis.py:101-108)
    predicted_pairs, true_pairs,
    fp_pc,           \* "idle" | "returned"
    fp_ret,          \* <<>> or <<false_positives, false_negatives>>
    \* ---- generate_hash_functions (minhash.py:26-34)
    gen_count, gen_seed,   \* the arguments of the call in progress or last made
    rng,             \* state of the call's random.Random
    functions,       \* local list of line 29
    gen_pc,          \* "idle" | "loop"
    gen_ret,         \* <<>> or <<list returned by the last call>>
    remembered,      \* <<>> or <<an earlier call: its arguments and result>>
    \* ---- choose_lsh_params (lsh.py:44-77)
    cp_t, cp_tau,    \* the arguments t and tau (tau a quotient num/den)
    cp_pc,           \* "idle" | "loop" | "returned" | "raised"
    cp_r,            \* factor_pairs: the next r the generator tries
    best_params,     \* <<>> (None) or <<[r, b]>>
    best_distance,   \* <<>> (None) or <<float>>
    best_slope,      \* <<>> (None) or <<float>>
    cp_ret,          \* <<>> or <<returned LshParams>>
    cp_err,          \* "" | "similarity" | "no_params": the ValueError raised
    \* ---- direct calls of lsh_probability and lsh_slope (lsh.py:21-34)
    fn_similarity,   \* the argument similarity (a float)
    fn_r, fn_b,      \* the arguments r and b
    prob_pc,         \* lsh_probability: "idle" | "returned" | "raised"
    prob_ret,        \* <<>> or <<returned float>>
    slope_pc,        \* lsh_slope: "idle" | "returned" | "raised"
    slope_ret,       \* <<>> or <<returned float>>
    \* ---- the MovieLens harness, run() of cli_movielens.py:92-299, for one t
    hs_user_ids,     \* user_ids (line 99): sorted identifiers
    hs_user_sets,    \* user_sets (line 100): one set per identifier
    hs_seed, hs_runs, hs_m,   \* args.seed, args.runs, args.minhash_m
    hs_t,            \* the t of the loop of line 132
    hs_params,       \* LshParams of line 193, a configuration for this t
    hs_tau,          \* the tau of line 186
    hs_rng,          \* state the last random.Random of a run was left in
    signatures_by_t, \* signatures_by_t[t]: the matrices stored, in run order
    hs_pc,           \* "sign" | "estimate" | "lsh" | "done": the loop running
    hs_next,         \* position of the running loop's iterator
    run_index,       \* the Python variable run_index
    predicted_set,   \* <<>> or <<the local of line 155>>
    hs_candidates,   \* <<>> or <<the local `candidates` of line 199>>
    hs_fp_fn,        \* <<>> or <<fp, fn>> of the last compute_fp_fn
    fp_total, fn_total,
    \* ---- estimated_pairs_from_signatures (movielens_analysis.py:54-69) on
    \* the matrix `signatures` with `user_ids`, next to the scalar estimator
    pr_threshold,    \* the argument threshold (a float)
    pr_pc,           \* "idle" | "returned"
    pr_ret,          \* <<>> or <<returned dict>>
    pr_i, pr_j,      \* rows (1-based) the scalar estimator was last called on
    \* ---- lsh_candidate_pairs (movielens_analysis.py:72-98) called twice on
    \* the matrix `signatures` with `user_ids`
    cb_first,        \* LshParams(r, b) of the first call
    cb_second,       \* LshParams(r, b) of the second call
    cb_pc,           \* "idle" | "first" | "second" | "raised"
    cb_ret1,         \* <<>> or <<set the first call returned>>
    cb_ret2          \* <<>> or <<set the second call returned>>

lshVars == <<user_ids, signatures, params, lsh_pc, band_index, candidates, lsh_ret>>
mhVars == <<hash_functions, mh_m, item_sets, mh_signatures, mh_pc, tokens, tok_ret>>
estVars == <<sig_a, sig_b, est_pc, est_ret>>
jacVars == <<jac_a, jac_b, jac_ret, jac_ret_swapped>>
fpVars == <<predicted_pairs, true_pairs, fp_pc, fp_ret>>
genVars == <<gen_count, gen_seed, rng, functions, gen_pc, gen_ret, remembered>>
cpVars == <<cp_t, cp_tau, cp_pc, cp_r, best_params, best_distance, best_slope,
            cp_ret, cp_err>>
fnVars == <<fn_similarity, fn_r, fn_b, prob_pc, prob_ret, slope_pc, slope_ret>>
hsVars == <<hs_user_ids, hs_user_sets, hs_seed, hs_runs, hs_m, hs_t, hs_params,
            hs_tau, hs_rng, signatures_by_t, hs_pc, hs_next, run_index,
            predicted_set, hs_candidates, hs_fp_fn, fp_total, fn_total>>
prVars == <<pr_threshold, pr_pc, pr_ret, pr_i, pr_j>>
cbVars == <<cb_first, cb_second, cb_pc, cb_ret1, cb_ret2>>
vars == <<lshVars, mhVars, estVars, jacVars, fpVars, genVars, cpVars, fnVars, hsVars,
          prVars, cbVars>>
notLsh == <<mhVars, estVars, jacVars, fpVars, genVars, cpVars, fnVars, hsVars, prVars, cbVars>>
notMh == <<lshVars, jacVars, fpVars, genVars, cpVars, fnVars, hsVars, prVars, cbVars>>
notEst == <<lshVars, mhVars, jacVars, fpVars, genVars, cpVars, fnVars, hsVars, prVars, cbVars>>
notJac == <<lshVars, mhVars, estVars, fpVars, genVars, cpVars, fnVars, hsVars, prVars, cbVars>>
notFp == <<lshVars, mhVars, estVars, jacVars, genVars, cpVars, fnVars, hsVars, prVars, cbVars>>
notGen == <<lshVars, mhVars, estVars, jacVars, fpVars, cpVars, fnVars, hsVars, prVars, cbVars>>
notCp == <<lshVars, mhVars, estVars, jacVars, fpVars, genVars, fnVars, hsVars, prVars, cbVars>>
notFn == <<lshVars, mhVars, estVars, jacVars, fpVars, genVars, hsVars, prVars, cbVars>>
notHs == <<lshVars, mhVars, estVars, jacVars, fpVars, genVars, cpVars, fnVars, prVars, cbVars>>
notPr == <<mhVars, jacVars, fpVars, genVars, cpVars, fnVars, hsVars, cbVars>>
notCb == <<mhVars, estVars, jacVars, fpVars, genVars, cpVars, fnVars, hsVars, prVars>>

(***************************************************************************)
(* Bounds of the model                                                     *)
(***************************************************************************)
MaxT == 4                       \* longest signature (columns of the matrix)
SigValues == {0, 1}             \* values a signature entry takes in the LSH model
UserIdLists == {<<1, 2, 3>>, <<3, 1, 2>>}   \* unique ids, sorted and unsorted
MaxCount == 2                   \* most hash functions in a family
MaxSeed == 2                    \* seeds 0..MaxSeed
MaxM == 3                       \* m ranges over 1..MaxM
MaxItem == 2                    \* integer items 0..MaxItem
MaxId == 3                      \* entity identifiers 1..MaxId in pair sets
MaxRuns == 2                    \* the harness makes 1..MaxRuns runs
MaxChooseT == 7                 \* choose_lsh_params: t ranges over -1..MaxChooseT
FloatBits == 3                  \* significand bits of a float (53 in a binary64)
RngMod == 16                    \* size of the stand-in generator's state space
Tokens == {"ab", "bc", "cd"}    \* token strings

\* PRIME of minhash.py:10 is 4294967311, just above 2^32, and hash_token
\* returns 64-bit values.  TLC's integers are 32-bit, so the model keeps the
\* proportions at a smaller scale: a prime just above 2^2 and 4-bit digests.
PRIME == 5

(***************************************************************************)
(* Helpers                                                                 *)
(***************************************************************************)
\* itertools.combinations(list, 2) of a list kept in ascending index order:
\* every (x, y) with x before y
Combinations2(S) == {p \in S \X S : p[1] < p[2]}

\* all sequences of length n over S
SeqsOfLen(S, n) == [1..n -> S]

(***************************************************************************)
(* lsh_candidate_pairs                                                     *)
(***************************************************************************)
\* signatures.shape: (num_users, t)
Shape(sig) == <<Len(sig), IF Len(sig) = 0 THEN 0 ELSE Len(sig[1])>>

\* mutant of ParamsMatch: the comparison written as <= (a product below t passes)
ParamsMatch_Loose(p, t) == p.r * p.b <= t

\* line 79: the precondition test (TRUE = the call goes on)
ParamsMatch(p, t) == p.r * p.b = t

\* mutant of BandStart: the window starts at the band index, not at band * b
BandStart_Unscaled(p, band) == band

\* line 84-85: the [start, end) column window of a band
BandStart(p, band) == band * p.b

\* mutant of BandEnd: the window is one column short
BandEnd_Short(p, band) == BandStart(p, band) + p.b - 1

BandEnd(p, band) == BandStart(p, band) + p.b

\* mutant of BandKey: the key is the set of the window's values, their
\* order and multiplicity lost
BandKey_Unordered(sig, i, start, end) == {sig[i][col] : col \in (start + 1)..end}

\* line 88: tuple(signatures[i, start:end].tolist()), i an index 1..num_users
BandKey(sig, i, start, end) == SubSeq(sig[i], start + 1, end)

\* lines 86-89: buckets of one band: key -> indices in increasing order
Buckets(sig, start, end) ==
    LET n == Len(sig)
        keys == {BandKey(sig, i, start, end) : i \in 1..n}
    IN  [k \in keys |-> {i \in 1..n : BandKey(sig, i, start, end) = k}]

\* lines 91-96: the pairs one band adds
BandPairs(ids, sig, p, band) ==
    LET bk == Buckets(sig, BandStart(p, band), BandEnd(p, band))
    IN  UNION {
          IF Cardinality(bk[k]) < 2 THEN {}
          ELSE {<<ids[c[1]], ids[c[2]]>> : c \in Combinations2(bk[k])}
          : k \in DOMAIN bk }

NoParams == [r |-> 0, b |-> 0]

LshInit ==
    /\ user_ids \in UserIdLists
    /\ \E t \in 0..MaxT :
         signatures \in SeqsOfLen(SeqsOfLen(SigValues, t), Len(user_ids))
    /\ params = NoParams
    /\ lsh_pc = "idle"
    /\ band_index = 0
    /\ candidates = {}
    /\ lsh_ret = <<>>

\* the (r, b) a call is made with: every pair whose product is the signature
\* length or misses it by one, negative and zero values included
ParamChoices(t) ==
    {p \in [r : -MaxT..MaxT, b : -MaxT..MaxT] :
        p.r * p.b \in {t - 1, t, t + 1}}

\* lines 78-82: the call up to the loop
LshCall ==
    /\ lsh_pc = "idle"
    /\ \E p \in ParamChoices(Shape(signatures)[2]) :
         /\ params' = p
         /\ IF ~ParamsMatch(p, Shape(signatures)[2])
            THEN /\ lsh_pc' = "raised"
                 /\ UNCHANGED candidates
            ELSE /\ lsh_pc' = "loop"
                 /\ candidates' = {}
    /\ band_index' = 0
    /\ UNCHANGED <<user_ids, signatures, lsh_ret>>
    /\ UNCHANGED notLsh

\* lines 83-96: one iteration of `for band_index in range(params.r)`
LshBand ==
    /\ lsh_pc = "loop"
    /\ band_index < params.r
    /\ candidates' = candidates \cup BandPairs(user_ids, signatures, params, band_index)
    /\ band_index' = band_index + 1
    /\ UNCHANGED <<user_ids, signatures, params, lsh_pc, lsh_ret>>
    /\ UNCHANGED notLsh

\* line 98: range exhausted
LshReturn ==
    /\ lsh_pc = "loop"
    /\ ~(band_index < params.r)
    /\ lsh_ret' = <<candidates>>
    /\ lsh_pc' = "returned"
    /\ UNCHANGED <<user_ids, signatures, params, band_index, candidates>>
    /\ UNCHANGED notLsh

LshNext == LshCall \/ LshBand \/ LshReturn

\* the component is not in use
LshIdle ==
    /\ user_ids = <<>> /\ signatures = <<>> /\ params = NoParams
    /\ lsh_pc = "idle" /\ band_index = 0 /\ candidates = {} /\ lsh_ret = <<>>

(***************************************************************************)
(* Hash family: HashFunction, generate_hash_functions                      *)
(***************************************************************************)
\* random.Random(seed) is the standard library's generator.  The model keeps
\* what the code relies on: the state after seeding is a function of the
\* seed alone, each draw advances the state, and randrange(lo, hi) returns a
\* value of [lo, hi) that is a function of the state.  A linear congruential
\* step stands in for the Mersenne Twister.
RngSeed(seed) == seed % RngMod
RngStep(state) == (5 * state + 3) % RngMod
RandRange(state, lo, hi) ==
    [value |-> lo + (RngStep(state) % (hi - lo)), state |-> RngStep(state)]

\* mutant of DrawFunction: b is drawn before a
DrawFunction_BFirst(state) ==
    LET db == RandRange(state, 0, PRIME)
        da == RandRange(db.state, 1, PRIME)
    IN  [fn |-> [a |-> da.value, b |-> db.value, prime |-> PRIME], state |-> da.state]

\* lines 31-33: one iteration: a = randrange(1, PRIME); b = randrange(0, PRIME)
DrawFunction(state) ==
    LET da == RandRange(state, 1, PRIME)
        db == RandRange(da.state, 0, PRIME)
    IN  [fn |-> [a |-> da.value, b |-> db.value, prime |-> PRIME], state |-> db.state]

\* lines 26-34 as a function of (count, seed): the list after `count` draws
RECURSIVE DrawFunctions(_, _)
DrawFunctions(count, state) ==
    IF count <= 0 THEN <<>>
    ELSE LET d == DrawFunction(state)
         IN  <<d.fn>> \o DrawFunctions(count - 1, d.state)

generate_hash_functions(count, seed) == DrawFunctions(count, RngSeed(seed))

\* HashFunction.apply, lines 21-23
Apply(func, x, m) == ((func.a * x + func.b) % func.prime) % m

(***************************************************************************)
(* Signatures: hash_token, minhash_signature, minhash_signature_from_ints, *)
(* minhash_signatures_for_sets                                             *)
(***************************************************************************)
\* hash_token (lines 37-40) is an 8-byte BLAKE2b digest read as an unsigned
\* integer: a fixed function of the token.  The table stands in for it at the
\* model's scale (4-bit digests); two of its values are congruent modulo PRIME.
hash_token(token) ==
    CASE token = "ab" -> 3
      [] token = "bc" -> 8
      [] token = "cd" -> 14

\* min(...) of a non-empty set of integers
Min(S) == CHOOSE x \in S : \A y \in S : x <= y
Max(S) == CHOOSE x \in S : \A y \in S : x >= y

\* mutant of EmptySignature: the sentinel is 0, the smallest legitimate value
EmptySignature_Zero(funcs, m) == [k \in 1..Len(funcs) |-> 0]

\* mutant of EmptySignature: the sentinel is the largest legitimate value
EmptySignature_InRange(funcs, m) == [k \in 1..Len(funcs) |-> m - 1]

\* lines 50-51 and 67-68: [m] * len(hash_functions)
EmptySignature(funcs, m) == [k \in 1..Len(funcs) |-> m]

\* mutant of MinOverItems: the maximum is kept instead of the minimum
MinOverItems_Max(func, values, m) == Max({Apply(func, h, m) : h \in values})

\* lines 55 and 72: min(func.apply(h, m) for h in values)
MinOverItems(func, values, m) == Min({Apply(func, h, m) : h \in values})

\* lines 60-74
minhash_signature_from_ints(items, funcs, m) ==
    IF items = {} THEN EmptySignature(funcs, m)
    ELSE [k \in 1..Len(funcs) |-> MinOverItems(funcs[k], items, m)]

\* lines 43-57
minhash_signature(toks, funcs, m) ==
    LET token_hashes == {hash_token(token) : token \in toks}
    IN  IF token_hashes = {} THEN EmptySignature(funcs, m)
        ELSE [k \in 1..Len(funcs) |-> MinOverItems(funcs[k], token_hashes, m)]

(***************************************************************************)
(* estimate_jaccard_from_signatures, lines 89-96                           *)
(***************************************************************************)
One == [num |-> 1, den |-> 1]

\* sum(1 for a, b in zip(sig_a, sig_b) if a == b)
Matches(a, b) ==
    LET n == IF Len(a) < Len(b) THEN Len(a) ELSE Len(b)
    IN  Cardinality({k \in 1..n : a[k] = b[k]})

\* mutant of EstimateValue: the matches are divided by t + 1
EstimateValue_OffByOne(a, b) ==
    IF Len(a) = 0 THEN One
    ELSE [num |-> Matches(a, b), den |-> Len(a) + 1]

\* lines 93-96: the value returned once the lengths are known to agree
EstimateValue(a, b) ==
    IF Len(a) = 0 THEN One
    ELSE [num |-> Matches(a, b), den |-> Len(a)]

\* mutant of LengthMismatch: the empty-signature test of line 93 comes first,
\* so an empty sig_a never reaches the length test
LengthMismatch_AfterEmpty(a, b) == Len(a) # 0 /\ Len(a) # Len(b)

\* lines 91-92: the length test (TRUE = ValueError)
LengthMismatch(a, b) == Len(a) # Len(b)

\* the whole call: sets est_pc and est_ret
EstimateCall(a, b) ==
    /\ sig_a' = a
    /\ sig_b' = b
    /\ IF LengthMismatch(a, b)
       THEN est_pc' = "raised" /\ est_ret' = <<>>
       ELSE est_pc' = "returned" /\ est_ret' = <<EstimateValue(a, b)>>

EstIdle == sig_a = <<>> /\ sig_b = <<>> /\ est_pc = "idle" /\ est_ret = <<>>

(***************************************************************************)
(* Specification of the signature pipeline: a family is generated, the     *)
(* sets are signed row by row, rows are compared with the estimator, and   *)
(* a token set is signed with the same family.                             *)
(***************************************************************************)
Items == 0..MaxItem
\* the lists of sets signed together: two sets, the number the estimator compares
SetLists == [{1, 2} -> SUBSET Items]

MhInit ==
    /\ \E count \in 0..MaxCount, seed \in 0..MaxSeed :
         hash_functions = generate_hash_functions(count, seed)
    /\ mh_m \in 1..MaxM
    /\ item_sets \in SetLists
    /\ mh_signatures = <<>>
    /\ mh_pc = "idle"
    /\ tokens = {}
    /\ tok_ret = <<>>

MhIdle ==
    /\ hash_functions = <<>> /\ mh_m = 1 /\ item_sets = <<>>
    /\ mh_signatures = <<>> /\ mh_pc = "idle" /\ tokens = {} /\ tok_ret = <<>>

\* minhash_signatures_for_sets, line 83: signatures = []
MhForSetsCall ==
    /\ mh_pc = "idle"
    /\ mh_signatures' = <<>>
    /\ mh_pc' = "rows"
    /\ UNCHANGED <<hash_functions, mh_m, item_sets, tokens, tok_ret, estVars>>
    /\ UNCHANGED notMh

\* lines 84-85: one iteration of `for items in item_sets`
MhForSetsRow ==
    /\ mh_pc = "rows"
    /\ Len(mh_signatures) < Len(item_sets)
    /\ mh_signatures' = Append(mh_signatures,
          minhash_signature_from_ints(item_sets[Len(mh_signatures) + 1],
                                      hash_functions, mh_m))
    /\ UNCHANGED <<hash_functions, mh_m, item_sets, mh_pc, tokens, tok_ret, estVars>>
    /\ UNCHANGED notMh

\* line 86: return signatures
MhForSetsReturn ==
    /\ mh_pc = "rows"
    /\ ~(Len(mh_signatures) < Len(item_sets))
    /\ mh_pc' = "returned"
    /\ UNCHANGED <<hash_functions, mh_m, item_sets, mh_signatures, tokens, tok_ret, estVars>>
    /\ UNCHANGED notMh

\* minhash_signature on a token collection, with the same family and m
MhTokens ==
    /\ mh_pc = "returned"
    /\ tok_ret = <<>>
    /\ est_pc = "idle"
    /\ \E toks \in SUBSET Tokens :
         /\ tokens' = toks
         /\ tok_ret' = <<minhash_signature(toks, hash_functions, mh_m)>>
    /\ UNCHANGED <<hash_functions, mh_m, item_sets, mh_signatures, mh_pc, estVars>>
    /\ UNCHANGED notMh

\* estimate_jaccard_from_signatures on two rows of the returned matrix
MhEstimateRows ==
    /\ mh_pc = "returned"
    /\ est_pc = "idle"
    /\ tok_ret = <<>>
    /\ \E i, j \in 1..Len(mh_signatures) :
         EstimateCall(mh_signatures[i], mh_signatures[j])
    /\ UNCHANGED mhVars
    /\ UNCHANGED notMh

MhNext ==
    \/ MhForSetsCall \/ MhForSetsRow \/ MhForSetsReturn
    \/ MhTokens \/ MhEstimateRows

(***************************************************************************)
(* Specification of the estimator alone: any two signatures                *)
(***************************************************************************)
EstInit ==
    /\ \E la, lb \in 0..MaxT :
         /\ sig_a \in SeqsOfLen(SigValues, la)
         /\ sig_b \in SeqsOfLen(SigValues, lb)
    /\ est_pc = "idle"
    /\ est_ret = <<>>

EstCall ==
    /\ est_pc = "idle"
    /\ EstimateCall(sig_a, sig_b)
    /\ UNCHANGED notEst

EstNext == EstCall

(***************************************************************************)
(* jaccard_similarity, jaccard.py:10-20                                    *)
(***************************************************************************)
Zero == [num |-> 0, den |-> 1]

\* mutant of JaccardQuotient: the intersection is divided by len(a)
JaccardQuotient_OverA(a, b) == [num |-> Cardinality(a \cap b), den |-> Cardinality(a)]

\* line 20: len(a & b) / len(union)
JaccardQuotient(a, b) ==
    [num |-> Cardinality(a \cap b), den |-> Cardinality(a \cup b)]

jaccard_similarity(a, b) ==
    IF a = {} /\ b = {} THEN One
    ELSE IF a \cup b = {} THEN Zero
    ELSE JaccardQuotient(a, b)

JacInit ==
    /\ jac_a \in SUBSET Items
    /\ jac_b \in SUBSET Items
    /\ jac_ret = <<>>
    /\ jac_ret_swapped = <<>>

JacIdle == jac_a = {} /\ jac_b = {} /\ jac_ret = <<>> /\ jac_ret_swapped = <<>>

\* the call jaccard_similarity(a, b)
JacCall ==
    /\ jac_ret = <<>>
    /\ jac_ret' = <<jaccard_similarity(jac_a, jac_b)>>
    /\ UNCHANGED <<jac_a, jac_b, jac_ret_swapped>>
    /\ UNCHANGED notJac

\* the call with the arguments exchanged, jaccard_similarity(b, a)
JacCallSwapped ==
    /\ jac_ret_swapped = <<>>
    /\ jac_ret_swapped' = <<jaccard_similarity(jac_b, jac_a)>>
    /\ UNCHANGED <<jac_a, jac_b, jac_ret>>
    /\ UNCHANGED notJac

JacNext == JacCall \/ JacCallSwapped

(***************************************************************************)
(* compute_fp_fn, movielens_analysis.py:101-108                            *)
(***************************************************************************)
PairUniverse == {p \in (1..MaxId) \X (1..MaxId) : p[1] < p[2]}

\* mutant of FalsePositives: the operands of the difference are exchanged
FalsePositives_Swapped(predicted, truth) == Cardinality(truth \ predicted)

\* line 106
FalsePositives(predicted, truth) == Cardinality(predicted \ truth)
\* line 107
FalseNegatives(predicted, truth) == Cardinality(truth \ predicted)

FpInit ==
    /\ predicted_pairs \in SUBSET PairUniverse
    /\ true_pairs \in SUBSET PairUniverse
    /\ fp_pc = "idle"
    /\ fp_ret = <<>>

FpIdle == predicted_pairs = {} /\ true_pairs = {} /\ fp_pc = "idle" /\ fp_ret = <<>>

\* the whole call: both differences build new sets, the arguments are only read
FpCall ==
    /\ fp_pc = "idle"
    /\ fp_ret' = << FalsePositives(predicted_pairs, true_pairs),
                    FalseNegatives(predicted_pairs, true_pairs) >>
    /\ fp_pc' = "returned"
    /\ UNCHANGED <<predicted_pairs, true_pairs>>
    /\ UNCHANGED notFp

FpNext == FpCall

(***************************************************************************)
(* generate_hash_functions stepped, minhash.py:26-34                       *)
(***************************************************************************)
\* mutant of RngAtCall: the generator is not seeded by the call and goes on
\* from the state the previous call left
RngAtCall_NotSeeded(seed, old) == old

\* line 28: rng = random.Random(seed), a generator of the call's own
RngAtCall(seed, old) == RngSeed(seed)

GenInit ==
    /\ gen_count = 0 /\ gen_seed = 0
    /\ rng = 0
    /\ functions = <<>>
    /\ gen_pc = "idle"
    /\ gen_ret = <<>>
    /\ remembered = <<>>

GenIdle == GenInit

\* lines 28-29
GenCall ==
    /\ gen_pc = "idle"
    /\ \E count \in 0..MaxCount, seed \in 0..MaxSeed :
         /\ gen_count' = count
         /\ gen_seed' = seed
         /\ rng' = RngAtCall(seed, rng)
    /\ functions' = <<>>
    /\ gen_ret' = <<>>
    /\ gen_pc' = "loop"
    /\ UNCHANGED remembered
    /\ UNCHANGED notGen

\* lines 30-33: one iteration of `for _ in range(count)`
GenDraw ==
    /\ gen_pc = "loop"
    /\ Len(functions) < gen_count
    /\ functions' = Append(functions, DrawFunction(rng).fn)
    /\ rng' = DrawFunction(rng).state
    /\ UNCHANGED <<gen_count, gen_seed, gen_pc, gen_ret, remembered>>
    /\ UNCHANGED notGen

\* line 34.  An observer may keep the first result it chooses to, to compare
\* later calls with; `between` records that a call with other arguments
\* returned after it.
GenReturn ==
    /\ gen_pc = "loop"
    /\ ~(Len(functions) < gen_count)
    /\ gen_ret' = <<functions>>
    /\ gen_pc' = "idle"
    /\ \/ /\ remembered = <<>>
          /\ remembered' = <<[count |-> gen_count, seed |-> gen_seed,
                              functions |-> functions, between |-> FALSE]>>
       \/ /\ remembered = <<>>
          /\ UNCHANGED remembered
       \/ /\ remembered # <<>>
          /\ remembered' =
               IF remembered[1].count # gen_count \/ remembered[1].seed # gen_seed
               THEN <<[remembered[1] EXCEPT !.between = TRUE]>>
               ELSE remembered
    /\ UNCHANGED <<gen_count, gen_seed, rng, functions>>
    /\ UNCHANGED notGen

GenNext == GenCall \/ GenDraw \/ GenReturn

(***************************************************************************)
(* lsh_probability, lsh_slope, factor_pairs, choose_lsh_params (lsh.py)    *)
(*                                                                         *)
(* A Python float is a binary64: every arithmetic result is rounded to the *)
(* nearest value with a 53-bit significand, ties to even.  The model keeps *)
(* floats as dyadic quotients [num, den] and rounds every result the same  *)
(* way to FloatBits significant bits, so that what rounding does to the    *)
(* code (1.0 - x == 1.0 for a small x, distances that tie) happens at the  *)
(* model's scale.  The exponent range is not bounded (no underflow occurs  *)
(* in the code for arguments of this size either).                         *)
(***************************************************************************)
RECURSIVE IntPow(_, _)
IntPow(x, k) == IF k <= 0 THEN 1 ELSE x * IntPow(x, k - 1)

Half == [num |-> 1, den |-> 2]
RatPow(x, k) == [num |-> IntPow(x.num, k), den |-> IntPow(x.den, k)]
RatSub(x, y) == [num |-> x.num * y.den - y.num * x.den, den |-> x.den * y.den]
RatMul(x, y) == [num |-> x.num * y.num, den |-> x.den * y.den]
RatAbs(x) == [num |-> IF x.num < 0 THEN -x.num ELSE x.num, den |-> x.den]
RatLess(x, y) == x.num * y.den < y.num * x.den
RatEq(x, y) == x.num * y.den = y.num * x.den

\* a quotient of a power-of-two denominator in lowest terms
RECURSIVE Reduce(_)
Reduce(x) ==
    IF x.num % 2 = 0 /\ x.den % 2 = 0 /\ x.den > 1
    THEN Reduce([num |-> x.num \div 2, den |-> x.den \div 2])
    ELSE x

\* a / d rounded to the nearest integer, ties to even (a >= 0, d > 0)
RoundDiv(a, d) ==
    LET q == a \div d
        rem == a % d
    IN  IF 2 * rem > d \/ (2 * rem = d /\ q % 2 = 1) THEN q + 1 ELSE q

\* the least k >= 0 with a * 2^k >= d * 2^(FloatBits - 1)
RECURSIVE ShiftUp(_, _)
ShiftUp(a, d) == IF a >= d * IntPow(2, FloatBits - 1) THEN 0 ELSE 1 + ShiftUp(2 * a, d)

\* the least k >= 0 with a < d * 2^(FloatBits + k)
RECURSIVE ShiftDown(_, _)
ShiftDown(a, d) == IF a < d * IntPow(2, FloatBits) THEN 0 ELSE 1 + ShiftDown(a, 2 * d)

\* the float nearest to the exact value x
Fl(x) ==
    LET a == IF x.num < 0 THEN -x.num ELSE x.num
        sgn == IF x.num < 0 THEN -1 ELSE 1
    IN  IF a = 0 THEN Zero
        ELSE IF a >= x.den * IntPow(2, FloatBits)
        THEN LET k == ShiftDown(a, x.den)
             IN  [num |-> sgn * RoundDiv(a, x.den * IntPow(2, k)) * IntPow(2, k), den |-> 1]
        ELSE LET k == ShiftUp(a, x.den)
             IN  Reduce([num |-> sgn * RoundDiv(a * IntPow(2, k), x.den), den |-> IntPow(2, k)])

\* float - float, float * float, float ** int, int * float
FSub(x, y) == Fl(RatSub(x, y))
FMul(x, y) == Fl(RatMul(x, y))
FPow(x, k) == Fl(RatPow(x, k))
FScale(k, x) == Fl([num |-> k * x.num, den |-> x.den])

\* lines 23-24: the argument test of lsh_probability (TRUE = ValueError)
SimilarityOutOfRange(similarity) ==
    RatLess(similarity, Zero) \/ RatLess(One, similarity)

\* line 25: 1.0 - (1.0 - similarity**b) ** r
lsh_probability(similarity, r, b) ==
    FSub(One, FPow(FSub(One, FPow(similarity, b)), r))

\* lines 30-34
lsh_slope(similarity, r, b) ==
    IF ~RatLess(Zero, similarity) THEN Zero
    ELSE IF ~RatLess(similarity, One) THEN Zero
    ELSE FMul(FScale(r * b, FPow(similarity, b - 1)),
              FPow(FSub(One, FPow(similarity, b)), r - 1))

\* line 56: abs(f_tau - 0.5)
Distance(tau, r, b) == RatAbs(FSub(lsh_probability(tau, r, b), Half))

\* mutant of NextFactor: the loop is range(1, n), which never tries r = n
NextFactor_Exclusive(n, from) ==
    IF \E r \in from..(n - 1) : n % r = 0
    THEN Min({r \in from..(n - 1) : n % r = 0})
    ELSE n + 1

\* lines 39-41: the r of the next pair factor_pairs(n) yields when its loop
\* stands at `from`; n + 1 when the generator is exhausted
NextFactor(n, from) ==
    IF \E r \in from..n : n % r = 0
    THEN Min({r \in from..n : n % r = 0})
    ELSE n + 1

\* `x or 0.0` of lines 65 and 69, x a float
OrZero(x) == IF x.num = 0 THEN Zero ELSE x

\* mutant of Replaces: a candidate at the same distance replaces the best
Replaces_OnTie(distance, slope, bestd, bests) ==
    ~RatLess(OrZero(bestd), distance)

\* lines 65 and 69: the candidate replaces the running best
Replaces(distance, slope, bestd, bests) ==
    \/ RatLess(distance, OrZero(bestd))
    \/ (RatEq(distance, bestd) /\ RatLess(OrZero(bests), slope))

\* the values of tau: the floats k/8 of [0, 1] and one on each side
Taus == {[num |-> k, den |-> 8] : k \in -1..9}

CpInit ==
    /\ cp_t \in -1..MaxChooseT
    /\ cp_tau \in Taus
    /\ cp_pc = "idle"
    /\ cp_r = 1
    /\ best_params = <<>> /\ best_distance = <<>> /\ best_slope = <<>>
    /\ cp_ret = <<>>
    /\ cp_err = ""

CpIdle ==
    /\ cp_t = 0 /\ cp_tau = Zero /\ cp_pc = "idle" /\ cp_r = 1
    /\ best_params = <<>> /\ best_distance = <<>> /\ best_slope = <<>>
    /\ cp_ret = <<>> /\ cp_err = ""

\* lines 50-52: the three None
CpCall ==
    /\ cp_pc = "idle"
    /\ cp_pc' = "loop"
    /\ cp_r' = 1
    /\ best_params' = <<>> /\ best_distance' = <<>> /\ best_slope' = <<>>
    /\ UNCHANGED <<cp_t, cp_tau, cp_ret, cp_err>>
    /\ UNCHANGED notCp

\* lines 54-72: one iteration of `for r, b in factor_pairs(t)`
CpPair ==
    /\ cp_pc = "loop"
    /\ NextFactor(cp_t, cp_r) <= cp_t
    /\ LET r == NextFactor(cp_t, cp_r)
           b == cp_t \div r
       IN  IF SimilarityOutOfRange(cp_tau)
           THEN /\ cp_pc' = "raised"
                /\ cp_err' = "similarity"
                /\ UNCHANGED <<cp_r, best_params, best_distance, best_slope>>
           ELSE LET distance == Distance(cp_tau, r, b)
                    slope == lsh_slope(cp_tau, r, b)
                    take == \/ best_params = <<>>
                            \/ Replaces(distance, slope, best_distance[1], best_slope[1])
                IN  /\ cp_r' = r + 1
                    /\ best_params' = IF take THEN <<[r |-> r, b |-> b]>> ELSE best_params
                    /\ best_distance' = IF take THEN <<distance>> ELSE best_distance
                    /\ best_slope' = IF take THEN <<slope>> ELSE best_slope
                    /\ UNCHANGED <<cp_pc, cp_err>>
    /\ UNCHANGED <<cp_t, cp_tau, cp_ret>>
    /\ UNCHANGED notCp

\* lines 74-77: the generator is exhausted
CpFinish ==
    /\ cp_pc = "loop"
    /\ ~(NextFactor(cp_t, cp_r) <= cp_t)
    /\ IF best_params = <<>>
       THEN cp_pc' = "raised" /\ cp_err' = "no_params" /\ UNCHANGED cp_ret
       ELSE cp_pc' = "returned" /\ cp_ret' = best_params /\ UNCHANGED cp_err
    /\ UNCHANGED <<cp_t, cp_tau, cp_r, best_params, best_distance, best_slope>>
    /\ UNCHANGED notCp

CpNext == CpCall \/ CpPair \/ CpFinish

(***************************************************************************)
(* lsh_probability and lsh_slope called directly (cli.py:141-142,          *)
(* reporting.py:93), next to choose_lsh_params, on the same similarity     *)
(***************************************************************************)
\* the (r, b) of a direct call: every pair of positive sizes whose product
\* is a signature length the selector handles
CurveParams ==
    {p \in [r : 1..MaxChooseT, b : 1..MaxChooseT] : p.r * p.b <= MaxChooseT}

FnInit ==
    /\ fn_similarity = cp_tau
    /\ \E p \in CurveParams : fn_r = p.r /\ fn_b = p.b
    /\ prob_pc = "idle" /\ prob_ret = <<>>
    /\ slope_pc = "idle" /\ slope_ret = <<>>

FnIdle ==
    /\ fn_similarity = Zero /\ fn_r = 1 /\ fn_b = 1
    /\ prob_pc = "idle" /\ prob_ret = <<>>
    /\ slope_pc = "idle" /\ slope_ret = <<>>

\* lsh_probability(similarity, r, b), lines 21-25
FnProbability ==
    /\ prob_pc = "idle"
    /\ IF SimilarityOutOfRange(fn_similarity)
       THEN prob_pc' = "raised" /\ prob_ret' = <<>>
       ELSE /\ prob_pc' = "returned"
            /\ prob_ret' = <<lsh_probability(fn_similarity, fn_r, fn_b)>>
    /\ UNCHANGED <<fn_similarity, fn_r, fn_b, slope_pc, slope_ret>>
    /\ UNCHANGED <<notFn, cpVars>>

\* lsh_slope(similarity, r, b), lines 28-34: every path is a return
FnSlope ==
    /\ slope_pc = "idle"
    /\ slope_pc' = "returned"
    /\ slope_ret' = <<lsh_slope(fn_similarity, fn_r, fn_b)>>
    /\ UNCHANGED <<fn_similarity, fn_r, fn_b, prob_pc, prob_ret>>
    /\ UNCHANGED <<notFn, cpVars>>

CurveNext == FnProbability \/ FnSlope \/ CpCall \/ CpPair \/ CpFinish

(***************************************************************************)
(* The MovieLens harness: minhash_signatures_matrix,                       *)
(* estimated_pairs_from_signatures, compute_exact_jaccard,                 *)
(* pairs_above_threshold (movielens_analysis.py) and the loops of run()    *)
(* (cli_movielens.py:130-208) for one t of MOVIELENS_T_VALUES, one         *)
(* configuration (t, r, b) of MOVIELENS_LSH_CONFIGS and one tau.           *)
(***************************************************************************)
\* np.uint32 (line 51) keeps a value modulo 2^32; the model's values are all
\* below the model's modulus, as the code's are below 2^32 for m < 2^32
Uint32Mod == 8
AsUint32(x) == x % Uint32Mod

\* the generator's state after the `count` iterations of minhash.py:30-33
RECURSIVE StateAfterDraws(_, _)
StateAfterDraws(count, state) ==
    IF count <= 0 THEN state
    ELSE StateAfterDraws(count - 1, DrawFunction(state).state)

\* mutant of minhash_signatures_matrix: the family is drawn from a generator
\* shared by the runs, going on from where the previous run left it
minhash_signatures_matrix_SharedRng(user_sets, t, m, seed, old) ==
    LET funcs == DrawFunctions(t, old)
    IN  [i \in 1..Len(user_sets) |->
            [k \in 1..Len(funcs) |->
                AsUint32(minhash_signature_from_ints(user_sets[i], funcs, m)[k])]]

\* minhash_signatures_matrix, lines 42-51; `old` is the state the previous
\* call's generator was left in, which line 28 of minhash.py does not read
minhash_signatures_matrix(user_sets, t, m, seed, old) ==
    LET funcs == DrawFunctions(t, RngAtCall(seed, old))
    IN  [i \in 1..Len(user_sets) |->
            [k \in 1..Len(funcs) |->
                AsUint32(minhash_signature_from_ints(user_sets[i], funcs, m)[k])]]

\* a float that is not a number: np.mean of an empty array
NaN == [num |-> 0, den |-> 0]
\* x >= y on floats: False when either is NaN
FloatGe(x, y) == x.den # 0 /\ y.den # 0 /\ x.num * y.den >= y.num * x.den

\* line 66: float(np.mean(sig_i == signatures[j]))
MeanEqual(a, b) ==
    IF Len(a) = 0 THEN NaN ELSE [num |-> Matches(a, b), den |-> Len(a)]

\* lines 63-67: the index pairs (i, j), i < j, that pass the threshold test
PairsAtLeast(sig, threshold) ==
    {c \in Combinations2(1..Len(sig)) :
        FloatGe(MeanEqual(sig[c[1]], sig[c[2]]), threshold)}

\* estimated_pairs_from_signatures, lines 54-69: the dict returned; a key
\* written twice keeps the value written last
estimated_pairs_from_signatures(ids, sig, threshold) ==
    LET hits == PairsAtLeast(sig, threshold)
        key(c) == <<ids[c[1]], ids[c[2]]>>
        last(k) == CHOOSE c \in hits :
                      /\ key(c) = k
                      /\ \A d \in hits : key(d) = k =>
                            (d[1] < c[1] \/ (d[1] = c[1] /\ d[2] <= c[2]))
    IN  [k \in {key(c) : c \in hits} |->
            MeanEqual(sig[last(k)[1]], sig[last(k)[2]])]

\* compute_exact_jaccard (lines 22-31) then pairs_above_threshold (34-39)
TruePairs(ids, sets, threshold) ==
    {<<ids[c[1]], ids[c[2]]>> : c \in
        {c \in Combinations2(1..Len(ids)) :
            FloatGe(jaccard_similarity(sets[c[1]], sets[c[2]]), threshold)}}

\* lsh_candidate_pairs (lines 72-98) on parameters that pass line 79: the
\* set after all bands
lsh_candidate_pairs(ids, sig, p) ==
    UNION {BandPairs(ids, sig, p, band) : band \in 0..(p.r - 1)}

\* config.py:28 and 29
SimThreshold == Half
LshThresholds == {[num |-> 3, den |-> 5], [num |-> 4, den |-> 5]}

\* the rating sets of the two users: every pair of sets of movies 0 and 1
HarnessSetLists == [{1, 2} -> SUBSET {0, 1}]

HsInit ==
    /\ hs_user_sets \in HarnessSetLists
    /\ hs_user_ids = [i \in 1..2 |-> i]
    /\ hs_seed \in 0..MaxSeed
    /\ hs_runs \in 1..MaxRuns
    /\ hs_m \in 1..MaxM
    /\ hs_t \in 1..MaxCount
    /\ hs_params \in {q \in [r : 1..MaxCount, b : 1..MaxCount] : q.r * q.b = hs_t}
    /\ hs_tau \in LshThresholds
    /\ hs_rng = 0
    /\ signatures_by_t = <<>>
    /\ hs_pc = "sign"
    /\ hs_next = 0 /\ run_index = 0
    /\ predicted_set = <<>> /\ hs_candidates = <<>> /\ hs_fp_fn = <<>>
    /\ fp_total = 0 /\ fn_total = 0

HsIdle ==
    /\ hs_user_sets = <<>> /\ hs_user_ids = <<>>
    /\ hs_seed = 0 /\ hs_runs = 0 /\ hs_m = 1 /\ hs_t = 0
    /\ hs_params = NoParams /\ hs_tau = Zero /\ hs_rng = 0
    /\ signatures_by_t = <<>> /\ hs_pc = "done"
    /\ hs_next = 0 /\ run_index = 0
    /\ predicted_set = <<>> /\ hs_candidates = <<>> /\ hs_fp_fn = <<>>
    /\ fp_total = 0 /\ fn_total = 0

\* lines 134-142: one iteration of `for run_index in range(args.runs)`
HsSign ==
    /\ hs_pc = "sign"
    /\ hs_next < hs_runs
    /\ LET seed == hs_seed + hs_next
       IN  /\ signatures_by_t' = Append(signatures_by_t,
                  minhash_signatures_matrix(hs_user_sets, hs_t, hs_m, seed, hs_rng))
           /\ hs_rng' = StateAfterDraws(hs_t, RngAtCall(seed, hs_rng))
    /\ run_index' = hs_next
    /\ hs_next' = hs_next + 1
    /\ UNCHANGED <<hs_user_ids, hs_user_sets, hs_seed, hs_runs, hs_m, hs_t, hs_params,
                   hs_tau, hs_pc, predicted_set, hs_candidates, hs_fp_fn,
                   fp_total, fn_total>>
    /\ UNCHANGED notHs

\* lines 144-146: the range is exhausted; the totals of the estimate loop
HsSignDone ==
    /\ hs_pc = "sign"
    /\ ~(hs_next < hs_runs)
    /\ hs_pc' = "estimate"
    /\ hs_next' = 0
    /\ fp_total' = 0 /\ fn_total' = 0
    /\ UNCHANGED <<hs_user_ids, hs_user_sets, hs_seed, hs_runs, hs_m, hs_t, hs_params,
                   hs_tau, hs_rng, signatures_by_t, run_index, predicted_set,
                   hs_candidates, hs_fp_fn>>
    /\ UNCHANGED notHs

\* lines 147-160: one iteration over the stored matrices
HsEstimate ==
    /\ hs_pc = "estimate"
    /\ hs_next < Len(signatures_by_t)
    /\ LET estimated_pairs == estimated_pairs_from_signatures(
                hs_user_ids, signatures_by_t[hs_next + 1], SimThreshold)
           truth == TruePairs(hs_user_ids, hs_user_sets, SimThreshold)
           fp == FalsePositives(DOMAIN estimated_pairs, truth)
           fn == FalseNegatives(DOMAIN estimated_pairs, truth)
       IN  /\ predicted_set' = <<DOMAIN estimated_pairs>>
           /\ hs_fp_fn' = <<fp, fn>>
           /\ fp_total' = fp_total + fp
           /\ fn_total' = fn_total + fn
    /\ run_index' = hs_next
    /\ hs_next' = hs_next + 1
    /\ UNCHANGED <<hs_user_ids, hs_user_sets, hs_seed, hs_runs, hs_m, hs_t, hs_params,
                   hs_tau, hs_rng, signatures_by_t, hs_pc, hs_candidates>>
    /\ UNCHANGED notHs

\* lines 162-195: the estimate loop is over; the totals of the LSH loop
HsEstimateDone ==
    /\ hs_pc = "estimate"
    /\ ~(hs_next < Len(signatures_by_t))
    /\ hs_pc' = "lsh"
    /\ hs_next' = 0
    /\ fp_total' = 0 /\ fn_total' = 0
    /\ UNCHANGED <<hs_user_ids, hs_user_sets, hs_seed, hs_runs, hs_m, hs_t, hs_params,
                   hs_tau, hs_rng, signatures_by_t, run_index, predicted_set,
                   hs_candidates, hs_fp_fn>>
    /\ UNCHANGED notHs

\* lines 198-208: one iteration of the LSH pass over the stored matrices
HsLsh ==
    /\ hs_pc = "lsh"
    /\ hs_next < Len(signatures_by_t)
    /\ LET found == lsh_candidate_pairs(hs_user_ids, signatures_by_t[hs_next + 1],
                                        hs_params)
           truth == TruePairs(hs_user_ids, hs_user_sets, hs_tau)
           fp == FalsePositives(found, truth)
           fn == FalseNegatives(found, truth)
       IN  /\ hs_candidates' = <<found>>
           /\ hs_fp_fn' = <<fp, fn>>
           /\ fp_total' = fp_total + fp
           /\ fn_total' = fn_total + fn
    /\ run_index' = hs_next
    /\ hs_next' = hs_next + 1
    /\ UNCHANGED <<hs_user_ids, hs_user_sets, hs_seed, hs_runs, hs_m, hs_t, hs_params,
                   hs_tau, hs_rng, signatures_by_t, hs_pc, predicted_set>>
    /\ UNCHANGED notHs

\* line 210: the LSH loop is over
HsLshDone ==
    /\ hs_pc = "lsh"
    /\ ~(hs_next < Len(signatures_by_t))
    /\ hs_pc' = "done"
    /\ UNCHANGED <<hs_user_ids, hs_user_sets, hs_seed, hs_runs, hs_m, hs_t, hs_params,
                   hs_tau, hs_rng, signatures_by_t, hs_next, run_index, predicted_set,
                   hs_candidates, hs_fp_fn, fp_total, fn_total>>
    /\ UNCHANGED notHs

HsNext == HsSign \/ HsSignDone \/ HsEstimate \/ HsEstimateDone \/ HsLsh \/ HsLshDone

(***************************************************************************)
(* estimated_pairs_from_signatures called on a matrix, and                 *)
(* estimate_jaccard_from_signatures called on two of its rows              *)
(***************************************************************************)
\* thresholds of the call: MOVIELENS_SIM_THRESHOLD and 1.0
PairThresholds == {Half, One}

PrInit ==
    /\ user_ids \in UserIdLists
    /\ \E t \in 0..MaxCount :
         signatures \in SeqsOfLen(SeqsOfLen(SigValues, t), Len(user_ids))
    /\ params = NoParams /\ lsh_pc = "idle" /\ band_index = 0
    /\ candidates = {} /\ lsh_ret = <<>>
    /\ pr_threshold \in PairThresholds
    /\ pr_pc = "idle" /\ pr_ret = <<>>
    /\ pr_i = 0 /\ pr_j = 0

PrIdle ==
    /\ pr_threshold = Zero /\ pr_pc = "idle" /\ pr_ret = <<>>
    /\ pr_i = 0 /\ pr_j = 0

\* the whole call estimated_pairs_from_signatures(user_ids, signatures, threshold)
PrCall ==
    /\ pr_pc = "idle"
    /\ pr_ret' = <<estimated_pairs_from_signatures(user_ids, signatures, pr_threshold)>>
    /\ pr_pc' = "returned"
    /\ UNCHANGED <<pr_threshold, pr_i, pr_j, lshVars, estVars>>
    /\ UNCHANGED notPr

\* estimate_jaccard_from_signatures(signatures[i], signatures[j]), i < j
PrScalar ==
    /\ est_pc = "idle"
    /\ \E c \in Combinations2(1..Len(signatures)) :
         /\ pr_i' = c[1]
         /\ pr_j' = c[2]
         /\ EstimateCall(signatures[c[1]], signatures[c[2]])
    /\ UNCHANGED <<pr_threshold, pr_pc, pr_ret, lshVars>>
    /\ UNCHANGED notPr

PrNext == PrCall \/ PrScalar

(***************************************************************************)
(* lsh_candidate_pairs called twice on one matrix                          *)
(***************************************************************************)
\* the (r, b) of a call: positive pairs whose product is the signature
\* length, or one more (these fail the test of line 79)
BandChoices(t) ==
    {p \in [r : 1..MaxT, b : 1..MaxT] : p.r * p.b \in {t, t + 1}}

CbInit ==
    /\ user_ids \in UserIdLists
    /\ \E t \in 0..MaxT :
         signatures \in SeqsOfLen(SeqsOfLen(SigValues, t), Len(user_ids))
    /\ params = NoParams /\ lsh_pc = "idle" /\ band_index = 0
    /\ candidates = {} /\ lsh_ret = <<>>
    /\ cb_first = NoParams /\ cb_second = NoParams
    /\ cb_pc = "idle" /\ cb_ret1 = <<>> /\ cb_ret2 = <<>>

CbIdle ==
    /\ cb_first = NoParams /\ cb_second = NoParams
    /\ cb_pc = "idle" /\ cb_ret1 = <<>> /\ cb_ret2 = <<>>

\* the whole first call lsh_candidate_pairs(user_ids, signatures, p)
CbFirst ==
    /\ cb_pc = "idle"
    /\ \E p \in BandChoices(Shape(signatures)[2]) :
         /\ cb_first' = p
         /\ IF ~ParamsMatch(p, Shape(signatures)[2])
            THEN /\ cb_pc' = "raised"
                 /\ UNCHANGED cb_ret1
            ELSE /\ cb_pc' = "first"
                 /\ cb_ret1' = <<lsh_candidate_pairs(user_ids, signatures, p)>>
    /\ UNCHANGED <<cb_second, cb_ret2, lshVars>>
    /\ UNCHANGED notCb

\* the whole second call, on the same user_ids and signatures
CbSecond ==
    /\ cb_pc = "first"
    /\ \E p \in BandChoices(Shape(signatures)[2]) :
         /\ cb_second' = p
         /\ IF ~ParamsMatch(p, Shape(signatures)[2])
            THEN /\ cb_pc' = "raised"
                 /\ UNCHANGED cb_ret2
            ELSE /\ cb_pc' = "second"
                 /\ cb_ret2' = <<lsh_candidate_pairs(user_ids, signatures, p)>>
    /\ UNCHANGED <<cb_first, cb_ret1, lshVars>>
    /\ UNCHANGED notCb

CbNext == CbFirst \/ CbSecond

(***************************************************************************)
(* Specifications                                                          *)
(***************************************************************************)
InitEstimate == EstInit /\ LshIdle /\ MhIdle /\ JacIdle /\ FpIdle /\ GenIdle /\ CpIdle /\ FnIdle /\ HsIdle /\ PrIdle /\ CbIdle
SpecEstimate == InitEstimate /\ [][EstNext]_vars

InitLsh == LshInit /\ MhIdle /\ EstIdle /\ JacIdle /\ FpIdle /\ GenIdle /\ CpIdle /\ FnIdle /\ HsIdle /\ PrIdle /\ CbIdle
SpecLsh == InitLsh /\ [][LshNext]_vars

InitMinHash == MhInit /\ LshIdle /\ EstIdle /\ JacIdle /\ FpIdle /\ GenIdle /\ CpIdle /\ FnIdle /\ HsIdle /\ PrIdle /\ CbIdle
SpecMinHash == InitMinHash /\ [][MhNext]_vars

InitJaccard == JacInit /\ LshIdle /\ MhIdle /\ EstIdle /\ FpIdle /\ GenIdle /\ CpIdle /\ FnIdle /\ HsIdle /\ PrIdle /\ CbIdle
SpecJaccard == InitJaccard /\ [][JacNext]_vars

InitFpFn == FpInit /\ LshIdle /\ MhIdle /\ EstIdle /\ JacIdle /\ GenIdle /\ CpIdle /\ FnIdle /\ HsIdle /\ PrIdle /\ CbIdle
SpecFpFn == InitFpFn /\ [][FpNext]_vars

InitChoose == CpInit /\ LshIdle /\ MhIdle /\ EstIdle /\ JacIdle /\ FpIdle /\ GenIdle /\ FnIdle /\ HsIdle /\ PrIdle /\ CbIdle
SpecChoose == InitChoose /\ [][CpNext]_vars

InitCurve == CpInit /\ FnInit /\ LshIdle /\ MhIdle /\ EstIdle /\ JacIdle /\ FpIdle /\ GenIdle /\ HsIdle /\ PrIdle /\ CbIdle
SpecCurve == InitCurve /\ [][CurveNext]_vars

InitHarness == HsInit /\ LshIdle /\ MhIdle /\ EstIdle /\ JacIdle /\ FpIdle /\ GenIdle /\ CpIdle /\ FnIdle /\ PrIdle /\ CbIdle
SpecHarness == InitHarness /\ [][HsNext]_vars

InitPairs == PrInit /\ MhIdle /\ EstIdle /\ JacIdle /\ FpIdle /\ GenIdle /\ CpIdle /\ FnIdle /\ HsIdle /\ CbIdle
SpecPairs == InitPairs /\ [][PrNext]_vars

InitBands == CbInit /\ MhIdle /\ EstIdle /\ JacIdle /\ FpIdle /\ GenIdle /\ CpIdle /\ FnIdle /\ HsIdle /\ PrIdle
SpecBands == InitBands /\ [][CbNext]_vars

InitHashFamily == GenInit /\ LshIdle /\ MhIdle /\ EstIdle /\ JacIdle /\ FpIdle /\ CpIdle /\ FnIdle /\ HsIdle /\ PrIdle /\ CbIdle
SpecHashFamily == InitHashFamily /\ [][GenNext]_vars

(***************************************************************************)
(* Claims about lsh_candidate_pairs                                        *)
(***************************************************************************)
SigT == Shape(signatures)[2]
NumUsers == Shape(signatures)[1]
Returned == lsh_ret[1]

\* rows i and j are equal at every column of [band*b, (band+1)*b), columns 0-based
CollideInBand(i, j, band, b) ==
    \A col \in (band * b)..((band + 1) * b - 1) :
        signatures[i][col + 1] = signatures[j][col + 1]

\* the unordered pair of entities i, j is in the returned set
PairReturned(i, j) ==
    \/ <<user_ids[i], user_ids[j]>> \in Returned
    \/ <<user_ids[j], user_ids[i]>> \in Returned

\* C1: after a call with r >= 1, b >= 1 and r*b = t, a pair of distinct
\* entities is in the returned set iff the two rows are equal on the whole
\* window [i*b, (i+1)*b) of some band i in 0..r-1, the returned set holds
\* nothing but pairs of distinct entities, and the windows the code cuts
\* are exactly these: every column 0..t-1 lies in exactly one of them.
C1_ExactCollisions ==
    (lsh_pc = "returned" /\ params.r >= 1 /\ params.b >= 1) =>
        /\ \A i, j \in 1..NumUsers : i # j =>
              (PairReturned(i, j) <=>
                 \E band \in 0..(params.r - 1) : CollideInBand(i, j, band, params.b))
        /\ \A pr \in Returned :
              \E i, j \in 1..NumUsers : i # j /\ pr = <<user_ids[i], user_ids[j]>>
        /\ \A col \in 0..(SigT - 1) :
              Cardinality({band \in 0..(params.r - 1) :
                  BandStart(params, band) <= col /\ col < BandEnd(params, band)}) = 1
        /\ \A band \in 0..(params.r - 1) :
              /\ BandStart(params, band) = band * params.b
              /\ BandEnd(params, band) = (band + 1) * params.b

\* C1 witness: two bands of two columns; one pair collides, another does not
C1_Witness ==
    /\ lsh_pc = "returned" /\ params.r = 2 /\ params.b = 2
    /\ PairReturned(1, 2)
    /\ ~PairReturned(1, 3)
    /\ signatures[1] # signatures[2]

\* C2 (as claimed): whenever a call passes the precondition r*b = t and
\* returns, every two entities with identical rows are in the returned set.
C2_IdenticalRowsAlwaysCandidates ==
    lsh_pc = "returned" =>
        \A i, j \in 1..NumUsers :
            (i # j /\ signatures[i] = signatures[j]) => PairReturned(i, j)

\* C14 (as claimed): for any list of unique identifiers, and positive r, b
\* with r*b = t, every returned pair has its smaller identifier first, no
\* pair is returned in both orientations, and no entity is paired with
\* itself.
C14_PairsSortedAscending ==
    (lsh_pc = "returned" /\ params.r >= 1 /\ params.b >= 1) =>
        \A pr \in Returned :
            /\ pr[1] < pr[2]
            /\ <<pr[2], pr[1]>> \notin Returned
            /\ pr[1] # pr[2]

\* the number of columns at which rows i and j agree
AgreeCount(i, j) ==
    Cardinality({col \in 1..SigT : signatures[i][col] = signatures[j][col]})

\* C20: after a call with r >= 1, b >= 1 and r*b = t, two entities whose
\* rows differ at fewer than r columns are in the returned set, and two
\* entities in the returned set have rows that agree at b columns or more,
\* so the estimate of the two rows is at least 1/r.
C20_PigeonholeBounds ==
    (lsh_pc = "returned" /\ params.r >= 1 /\ params.b >= 1) =>
        \A i, j \in 1..NumUsers : i # j =>
            /\ SigT - AgreeCount(i, j) < params.r => PairReturned(i, j)
            /\ PairReturned(i, j) =>
                  /\ AgreeCount(i, j) >= params.b
                  /\ ~LengthMismatch(signatures[i], signatures[j])
                  /\ EstimateValue(signatures[i], signatures[j]).num * params.r
                        >= EstimateValue(signatures[i], signatures[j]).den

\* C20 witness: two bands of two columns; one pair differs at one column
\* only, another agrees at exactly b = 2 columns and is a candidate, and a
\* third agrees at one column and is not
C20_Witness ==
    /\ lsh_pc = "returned" /\ params.r = 2 /\ params.b = 2
    /\ AgreeCount(1, 2) = 3 /\ PairReturned(1, 2)
    /\ AgreeCount(1, 3) = 2 /\ PairReturned(1, 3)
    /\ AgreeCount(2, 3) = 1 /\ ~PairReturned(2, 3)

\* C10: a call with r*b # t raises at once: it ends in "raised" with no
\* returned set, no band processed and no candidate recorded, and it leaves
\* the signature matrix and the identifiers as they were.
C10_MismatchFailsFast ==
    /\ [][(lsh_pc = "idle" /\ lsh_pc' # "idle" /\ params'.r * params'.b # SigT) =>
            /\ lsh_pc' = "raised"
            /\ lsh_ret' = <<>>
            /\ band_index' = 0
            /\ candidates' = {}
            /\ signatures' = signatures
            /\ user_ids' = user_ids]_vars
    /\ [](lsh_pc = "raised" =>
            /\ params.r * params.b # SigT
            /\ lsh_ret = <<>> /\ band_index = 0 /\ candidates = {})
    /\ [](lsh_pc \in {"loop", "returned"} => params.r * params.b = SigT)

\* C10 witness: a mismatching call on a matrix that has colliding rows
C10_Witness ==
    /\ lsh_pc = "raised"
    /\ params.r = 2 /\ params.b = 1 /\ SigT = 3
    /\ signatures[1] = signatures[2]

(***************************************************************************)
(* Claims about the signatures                                             *)
(***************************************************************************)
\* ((a_k * x + b_k) mod P) mod m for the k-th function of the family
HashValue(k, x) ==
    ((hash_functions[k].a * x + hash_functions[k].b) % PRIME) % mh_m

\* sig is the signature of the pre-hashed values `values`
IsSignatureOf(sig, values) ==
    /\ Len(sig) = Len(hash_functions)
    /\ \A k \in 1..Len(sig) :
          IF values = {} THEN sig[k] = mh_m
          ELSE /\ \E x \in values : sig[k] = HashValue(k, x)
               /\ \A x \in values : sig[k] <= HashValue(k, x)

\* C3: a signature has len(hash_functions) entries; entry k is the minimum
\* over the items of ((a_k*x + b_k) mod P) mod m, or m when there is no item
\* (minhash_signature takes x = hash_token(token)); row i of
\* minhash_signatures_for_sets is the signature of input set i, and the call
\* returns one row per set.
C3_SignatureIsMinimum ==
    /\ Len(mh_signatures) <= Len(item_sets)
    /\ \A i \in 1..Len(mh_signatures) : IsSignatureOf(mh_signatures[i], item_sets[i])
    /\ mh_pc = "returned" => Len(mh_signatures) = Len(item_sets)
    /\ tok_ret # <<>> =>
          IsSignatureOf(tok_ret[1], {hash_token(token) : token \in tokens})

\* C3 witness: two functions, a row whose minimum is taken over several
\* distinct hash values, a row of an empty set, and a signed token set
C3_Witness ==
    /\ mh_pc = "returned"
    /\ Len(hash_functions) = 2
    /\ Cardinality({HashValue(1, x) : x \in item_sets[1]}) >= 2
    /\ item_sets[2] = {}
    /\ tok_ret # <<>>
    /\ Cardinality({HashValue(2, hash_token(token)) : token \in tokens}) >= 2

\* C4: with m >= 1 every entry of a non-empty set's signature is in [0, m);
\* for t >= 1 the estimate of an empty set's row against a non-empty set's
\* row is 0.0 (no position agrees) and against another empty set's row 1.0.
C4_SentinelNeverCollides ==
    /\ mh_m >= 1
    /\ \A i \in 1..Len(mh_signatures) : item_sets[i] # {} =>
          \A k \in 1..Len(mh_signatures[i]) :
              0 <= mh_signatures[i][k] /\ mh_signatures[i][k] < mh_m
    /\ (tok_ret # <<>> /\ tokens # {}) =>
          \A k \in 1..Len(tok_ret[1]) : 0 <= tok_ret[1][k] /\ tok_ret[1][k] < mh_m
    /\ (est_pc = "returned" /\ Len(hash_functions) >= 1) =>
          \A i, j \in 1..Len(mh_signatures) :
              (sig_a = mh_signatures[i] /\ sig_b = mh_signatures[j] /\ item_sets[i] = {}) =>
                  /\ item_sets[j] # {} =>
                        /\ est_ret[1].num = 0
                        /\ \A k \in 1..Len(sig_a) : sig_a[k] # sig_b[k]
                  /\ item_sets[j] = {} =>
                        /\ est_ret[1].num = est_ret[1].den
                        /\ \A k \in 1..Len(sig_a) : sig_a[k] = sig_b[k]

\* C4 witness: an empty set's row compared with the row of a set whose
\* signature reaches m - 1, the largest legitimate value
C4_Witness ==
    /\ est_pc = "returned"
    /\ Len(hash_functions) = 2
    /\ item_sets[1] = {} /\ item_sets[2] # {}
    /\ sig_a = mh_signatures[1] /\ sig_b = mh_signatures[2]
    /\ \E k \in 1..2 : sig_b[k] = mh_m - 1
    /\ est_ret[1].num = 0

\* the position-wise minimum of two signatures of one length
PositionwiseMin(x, y) == [k \in 1..Len(x) |-> IF x[k] <= y[k] THEN x[k] ELSE y[k]]

\* C19: the signature of a union is the position-wise minimum of the
\* signatures of its parts, an empty part included: for the two rows of the
\* matrix and the signature of the union of their sets, for every way to
\* write a row's set as a union, and for every way to write the signed
\* token set as a union.
C19_UnionIsPositionwiseMin ==
    /\ mh_pc = "returned" =>
          /\ minhash_signature_from_ints(item_sets[1] \cup item_sets[2],
                                         hash_functions, mh_m)
                = PositionwiseMin(mh_signatures[1], mh_signatures[2])
          /\ \A i \in 1..Len(item_sets) :
                \A A, B \in SUBSET item_sets[i] :
                    A \cup B = item_sets[i] =>
                        mh_signatures[i] = PositionwiseMin(
                            minhash_signature_from_ints(A, hash_functions, mh_m),
                            minhash_signature_from_ints(B, hash_functions, mh_m))
    /\ tok_ret # <<>> =>
          \A A, B \in SUBSET tokens :
              A \cup B = tokens =>
                  tok_ret[1] = PositionwiseMin(
                      minhash_signature(A, hash_functions, mh_m),
                      minhash_signature(B, hash_functions, mh_m))

\* C19 witness: two non-empty sets, neither inside the other, whose union's
\* signature takes one entry from each row and equals neither row
C19_Witness ==
    /\ mh_pc = "returned" /\ Len(hash_functions) = 2
    /\ item_sets[1] \ item_sets[2] # {} /\ item_sets[2] \ item_sets[1] # {}
    /\ PositionwiseMin(mh_signatures[1], mh_signatures[2]) # mh_signatures[1]
    /\ PositionwiseMin(mh_signatures[1], mh_signatures[2]) # mh_signatures[2]
    /\ tok_ret # <<>> /\ Cardinality(tokens) >= 2

\* C17 (as claimed): every value hash_token returns is below PRIME, so two
\* tokens with different digests stay different modulo PRIME and no hash
\* function of the family gives them the same value before the reduction
\* modulo m.
C17_PrimeExceedsHashRange ==
    tok_ret # <<>> =>
        /\ \A token \in tokens : hash_token(token) < PRIME
        /\ \A t1, t2 \in tokens :
              hash_token(t1) # hash_token(t2) =>
                  /\ hash_token(t1) % PRIME # hash_token(t2) % PRIME
                  /\ \A k \in 1..Len(hash_functions) :
                        (hash_functions[k].a * hash_token(t1) + hash_functions[k].b) % PRIME
                          # (hash_functions[k].a * hash_token(t2) + hash_functions[k].b) % PRIME

(***************************************************************************)
(* Claims about estimate_jaccard_from_signatures                           *)
(***************************************************************************)
Agreements == Cardinality({k \in 1..Len(sig_a) : sig_a[k] = sig_b[k]})

\* C5: on two signatures of equal length the call returns
\* (positions that agree) / length, 1.0 when the length is zero, and the
\* value is in [0, 1]; equal lengths always return.
C5_EstimateIsAgreementFraction ==
    /\ (est_pc # "idle" /\ Len(sig_a) = Len(sig_b)) => est_pc = "returned"
    /\ est_pc = "returned" =>
          /\ Len(sig_a) = Len(sig_b)
          /\ est_ret[1].den > 0
          /\ Len(sig_a) = 0 => est_ret[1].num = est_ret[1].den
          /\ Len(sig_a) > 0 =>
                est_ret[1].num * Len(sig_a) = Agreements * est_ret[1].den
          /\ 0 <= est_ret[1].num /\ est_ret[1].num <= est_ret[1].den

\* C5 witness: three positions, two of which agree
C5_Witness ==
    /\ est_pc = "returned"
    /\ Len(sig_a) = 3 /\ Agreements = 2
    /\ est_ret[1].num * 3 = 2 * est_ret[1].den

\* C11: a call on signatures of different lengths raises and returns no
\* value, also when exactly one of the two is empty; nothing else raises.
C11_LengthMismatchRaises ==
    /\ (est_pc # "idle" /\ Len(sig_a) # Len(sig_b)) =>
          (est_pc = "raised" /\ est_ret = <<>>)
    /\ est_pc = "raised" => (Len(sig_a) # Len(sig_b) /\ est_ret = <<>>)

\* C11 witness: the first signature is empty, the second is not
C11_Witness ==
    /\ est_pc = "raised" /\ est_ret = <<>>
    /\ sig_a = <<>> /\ Len(sig_b) = 2

\* C18 (as claimed): for every matrix, zero columns included, and rows
\* i < j, the dict of estimated_pairs_from_signatures has the key
\* (user_ids[i], user_ids[j]) exactly when the scalar estimator returns a
\* value v >= threshold on the two rows, and then holds that v.
C18_MatrixAgreesWithScalar ==
    (pr_pc = "returned" /\ est_pc # "idle") =>
        LET key == <<user_ids[pr_i], user_ids[pr_j]>>
            inDict == key \in DOMAIN pr_ret[1]
        IN  /\ inDict <=> (est_pc = "returned" /\ FloatGe(est_ret[1], pr_threshold))
            /\ inDict => /\ pr_ret[1][key].den # 0
                         /\ RatEq(pr_ret[1][key], est_ret[1])

(***************************************************************************)
(* Claims about jaccard_similarity                                         *)
(***************************************************************************)
\* C6: the call returns 1.0 when both sets are empty and |A n B| / |A u B|
\* otherwise, a value of [0, 1]; jaccard(A, B) and jaccard(B, A) are the same
\* float; and jaccard(A, A) is 1.0.
C6_JaccardValueSymmetric ==
    /\ jac_ret # <<>> =>
          /\ jac_ret[1].den > 0
          /\ (jac_a = {} /\ jac_b = {}) => jac_ret[1].num = jac_ret[1].den
          /\ ~(jac_a = {} /\ jac_b = {}) =>
                jac_ret[1].num * Cardinality(jac_a \cup jac_b)
                    = Cardinality(jac_a \cap jac_b) * jac_ret[1].den
          /\ 0 <= jac_ret[1].num /\ jac_ret[1].num <= jac_ret[1].den
          /\ jac_a = jac_b => jac_ret[1].num = jac_ret[1].den
    /\ (jac_ret # <<>> /\ jac_ret_swapped # <<>>) =>
          /\ jac_ret_swapped[1].den > 0
          /\ jac_ret[1].num * jac_ret_swapped[1].den
                = jac_ret_swapped[1].num * jac_ret[1].den

\* C6 witness: both orders called on sets of different sizes that overlap
C6_Witness ==
    /\ jac_ret # <<>> /\ jac_ret_swapped # <<>>
    /\ Cardinality(jac_a) = 1 /\ Cardinality(jac_b) = 3
    /\ jac_ret[1].num * 3 = jac_ret[1].den

(***************************************************************************)
(* Claims about generate_hash_functions                                    *)
(***************************************************************************)
\* C8: a call returns `count` functions, each with a in [1, P), b in [0, P)
\* and prime P; and it returns the list an earlier call with the same
\* (count, seed) returned, whatever calls were made in between.
C8_GenerateDeterministic ==
    gen_ret # <<>> =>
        /\ Len(gen_ret[1]) = gen_count
        /\ \A k \in 1..Len(gen_ret[1]) :
              /\ 1 <= gen_ret[1][k].a /\ gen_ret[1][k].a < PRIME
              /\ 0 <= gen_ret[1][k].b /\ gen_ret[1][k].b < PRIME
              /\ gen_ret[1][k].prime = PRIME
        /\ (/\ remembered # <<>>
            /\ remembered[1].count = gen_count
            /\ remembered[1].seed = gen_seed) => remembered[1].functions = gen_ret[1]

\* C8 witness: the same (count, seed) returned again after a call with
\* another seed drew from its own generator
C8_Witness ==
    /\ gen_ret # <<>> /\ remembered # <<>>
    /\ remembered[1].between
    /\ remembered[1].count = gen_count /\ remembered[1].seed = gen_seed
    /\ gen_count = 2
    /\ gen_ret[1][1] # gen_ret[1][2]

\* the generator's state n draws after it was seeded with `seed`
RECURSIVE RngAfter(_, _)
RngAfter(seed, n) == IF n <= 0 THEN RngSeed(seed) ELSE RngStep(RngAfter(seed, n - 1))

\* C15: in a call, the function of index i (0-based) takes a from draw
\* 2i + 1 and b from draw 2i + 2 of a generator seeded once with the call's
\* seed, whatever count is; so of two calls with the same seed the shorter
\* result is the beginning of the longer.
C15_IndexReproducible ==
    /\ \A k \in 1..Len(functions) :
          /\ functions[k].a = 1 + (RngAfter(gen_seed, 2 * k - 1) % (PRIME - 1))
          /\ functions[k].b = RngAfter(gen_seed, 2 * k) % PRIME
    /\ gen_pc = "loop" => rng = RngAfter(gen_seed, 2 * Len(functions))
    /\ (gen_ret # <<>> /\ remembered # <<>> /\ remembered[1].seed = gen_seed) =>
          /\ remembered[1].count <= gen_count =>
                remembered[1].functions = SubSeq(gen_ret[1], 1, remembered[1].count)
          /\ gen_count <= remembered[1].count =>
                gen_ret[1] = SubSeq(remembered[1].functions, 1, gen_count)

\* C15 witness: a call for one function, then a call with the same seed for
\* two; the second function differs from the shared first one
C15_Witness ==
    /\ gen_ret # <<>> /\ remembered # <<>>
    /\ remembered[1].seed = gen_seed
    /\ remembered[1].count = 1 /\ gen_count = 2
    /\ gen_ret[1][1] = remembered[1].functions[1]
    /\ gen_ret[1][2] # gen_ret[1][1]

(***************************************************************************)
(* Claims about compute_fp_fn                                              *)
(***************************************************************************)
\* C9: the call returns (|predicted - truth|, |truth - predicted|): two
\* non-negative integers with fp + |predicted n truth| = |predicted| and
\* fn + |predicted n truth| = |truth|, and it leaves both sets as they were.
C9_FpFnCounts ==
    [][(fp_pc = "idle" /\ fp_pc' = "returned") =>
        /\ Len(fp_ret') = 2
        /\ fp_ret'[1] \in Nat /\ fp_ret'[2] \in Nat
        /\ fp_ret'[1] = Cardinality({p \in predicted_pairs : p \notin true_pairs})
        /\ fp_ret'[2] = Cardinality({p \in true_pairs : p \notin predicted_pairs})
        /\ fp_ret'[1] + Cardinality(predicted_pairs \cap true_pairs)
              = Cardinality(predicted_pairs)
        /\ fp_ret'[2] + Cardinality(predicted_pairs \cap true_pairs)
              = Cardinality(true_pairs)
        /\ predicted_pairs' = predicted_pairs
        /\ true_pairs' = true_pairs]_vars

\* C9 witness: sets that overlap and differ both ways
C9_Witness ==
    /\ fp_pc = "returned"
    /\ fp_ret = <<1, 1>>
    /\ Cardinality(predicted_pairs \cap true_pairs) = 1

(***************************************************************************)
(* Claims about choose_lsh_params                                          *)
(***************************************************************************)
DivisorPairs(t) == {pr \in [r : 1..t, b : 1..t] : pr.r * pr.b = t}
\* |f(tau) - 0.5| and f'(tau) of a pair, as lsh_probability and lsh_slope
\* compute them for the call's tau
DistOf(pr) == Distance(cp_tau, pr.r, pr.b)
SlopeOf(pr) == lsh_slope(cp_tau, pr.r, pr.b)

\* C7: for t >= 1 and tau in [0, 1] the call returns (r, b) with
\* 1 <= r <= t and r*b = t at minimum distance |f(tau) - 0.5| among the
\* divisor pairs of t; of the pairs at that distance it has the largest
\* slope, and of those with that slope too the smallest r.
C7_ChoosesClosestToHalf ==
    (/\ cp_pc # "idle" /\ cp_pc # "loop" /\ cp_t >= 1
     /\ ~RatLess(cp_tau, Zero) /\ ~RatLess(One, cp_tau)) =>
        /\ cp_pc = "returned"
        /\ cp_ret[1] \in DivisorPairs(cp_t)
        /\ \A o \in DivisorPairs(cp_t) :
              LET c == cp_ret[1]
              IN  /\ ~RatLess(DistOf(o), DistOf(c))
                  /\ RatEq(DistOf(o), DistOf(c)) =>
                        /\ ~RatLess(SlopeOf(c), SlopeOf(o))
                        /\ RatEq(SlopeOf(o), SlopeOf(c)) => c.r <= o.r

\* C12 (as claimed): a similarity below 0 or above 1 makes each of
\* lsh_probability, lsh_slope and choose_lsh_params (t >= 1) raise and
\* return no value.
C12_OutOfRangeAlwaysRaises ==
    /\ (prob_pc # "idle" /\ SimilarityOutOfRange(fn_similarity)) =>
          (prob_pc = "raised" /\ prob_ret = <<>>)
    /\ (slope_pc # "idle" /\ SimilarityOutOfRange(fn_similarity)) =>
          (slope_pc = "raised" /\ slope_ret = <<>>)
    /\ (cp_pc \notin {"idle", "loop"} /\ cp_t >= 1 /\ SimilarityOutOfRange(cp_tau)) =>
          (cp_pc = "raised" /\ cp_err = "similarity" /\ cp_ret = <<>>)

\* C13: a call with t <= 0 ends in the no-valid-parameters error, whatever
\* tau is, and returns nothing; a call that ends in that error had t <= 0,
\* so none with t >= 1 and tau in [0, 1] does.
C13_NoParamsOnlyForNonPositiveT ==
    /\ (cp_pc \notin {"idle", "loop"} /\ cp_t <= 0) =>
          (cp_pc = "raised" /\ cp_err = "no_params" /\ cp_ret = <<>>)
    /\ cp_err = "no_params" => cp_t <= 0
    /\ (cp_pc \notin {"idle", "loop"} /\ cp_t >= 1 /\ ~SimilarityOutOfRange(cp_tau)) =>
          (cp_pc = "returned" /\ cp_err = "")

\* C13 witness: t = 0 with a tau in range, where no pair was ever scored
C13_Witness ==
    /\ cp_pc = "raised" /\ cp_err = "no_params"
    /\ cp_t = 0 /\ RatEq(cp_tau, Half)
    /\ best_params = <<>>

\* C7 witness: t = 7 at tau = 3/8, where both pairs are at distance 0.5
\* and the one returned has the larger slope and is not the first
C7_Witness ==
    /\ cp_pc = "returned" /\ cp_t = 7 /\ cp_tau = [num |-> 3, den |-> 8]
    /\ cp_ret[1] = [r |-> 7, b |-> 1]
    /\ RatEq(DistOf([r |-> 1, b |-> 7]), DistOf(cp_ret[1]))
    /\ RatLess(SlopeOf([r |-> 1, b |-> 7]), SlopeOf(cp_ret[1]))

(***************************************************************************)
(* Claims about the MovieLens harness                                      *)
(***************************************************************************)
\* the matrix of run `run` as a function of (user_sets, t, m, seed + run):
\* the family of a generator freshly seeded with seed + run, applied row by row
RunMatrix(run) ==
    LET funcs == generate_hash_functions(hs_t, hs_seed + run)
    IN  [i \in 1..Len(hs_user_sets) |->
            [k \in 1..hs_t |->
                AsUint32(minhash_signature_from_ints(hs_user_sets[i], funcs, hs_m)[k])]]

\* (|predicted - truth|, |truth - predicted|) against the exact pairs at tau
CountsOf(predicted, tau) ==
    LET truth == TruePairs(hs_user_ids, hs_user_sets, tau)
    IN  <<Cardinality(predicted \ truth), Cardinality(truth \ predicted)>>

\* C16: the matrix stored for run i is RunMatrix(i), whatever runs came
\* before it; the predicted set and (fp, fn) of run i in the estimate loop,
\* and the candidate set and (fp, fn) of run i in the LSH pass, are those of
\* RunMatrix(i); and no step changes user_sets or a matrix already stored.
C16_RunsIndependent ==
    /\ [](\A i \in 1..Len(signatures_by_t) : signatures_by_t[i] = RunMatrix(i - 1))
    /\ []((hs_pc = "estimate" /\ hs_next > 0) =>
            /\ run_index = hs_next - 1
            /\ predicted_set[1] =
                  DOMAIN estimated_pairs_from_signatures(
                      hs_user_ids, RunMatrix(run_index), SimThreshold)
            /\ hs_fp_fn = CountsOf(predicted_set[1], SimThreshold))
    /\ []((hs_pc = "lsh" /\ hs_next > 0) =>
            /\ run_index = hs_next - 1
            /\ hs_candidates[1] =
                  lsh_candidate_pairs(hs_user_ids, RunMatrix(run_index), hs_params)
            /\ hs_fp_fn = CountsOf(hs_candidates[1], hs_tau))
    /\ [][/\ hs_user_sets' = hs_user_sets
          /\ Len(signatures_by_t') >= Len(signatures_by_t)
          /\ \A i \in 1..Len(signatures_by_t) :
                signatures_by_t'[i] = signatures_by_t[i]]_vars

\* C16 witness: two runs whose matrices differ, read again by the LSH pass,
\* whose second run proposes a pair that is not a true pair
C16_Witness ==
    /\ hs_pc = "lsh" /\ hs_next = 2 /\ run_index = 1
    /\ Len(signatures_by_t) = 2
    /\ signatures_by_t[1] # signatures_by_t[2]
    /\ hs_candidates = <<{<<1, 2>>}>>
    /\ hs_fp_fn = <<1, 0>>

\* C21: after two calls on one matrix that both return (r1*b1 = r2*b2 = t,
\* all positive), if b1 divides b2 the second call's set is a subset of the
\* first's; and whatever the other call's parameters, the set for (r = t,
\* b = 1) contains the other set and the set for (r = 1, b = t) is contained
\* in the other set.
C21_CoarserBandsSubset ==
    cb_pc = "second" =>
        /\ cb_first.r >= 1 /\ cb_first.b >= 1
        /\ cb_second.r >= 1 /\ cb_second.b >= 1
        /\ cb_first.r * cb_first.b = SigT
        /\ cb_second.r * cb_second.b = SigT
        /\ cb_second.b % cb_first.b = 0 => cb_ret2[1] \subseteq cb_ret1[1]
        /\ (cb_first.r = SigT /\ cb_first.b = 1) => cb_ret2[1] \subseteq cb_ret1[1]
        /\ (cb_second.r = 1 /\ cb_second.b = SigT) => cb_ret2[1] \subseteq cb_ret1[1]

\* C21 witness: four columns, first two bands of two columns, then one band
\* of four: the wider band keeps some of the first call's pairs and drops
\* others
C21_Witness ==
    /\ cb_pc = "second"
    /\ cb_first = [r |-> 2, b |-> 2] /\ cb_second = [r |-> 1, b |-> 4]
    /\ cb_ret2[1] # {}
    /\ cb_ret2[1] # cb_ret1[1]

====
